---------------------------- MODULE Spec2Model ----------------------------
(***************************************************************************)
(* A model of models.py: the LTVModel base class (preprocess_data, the     *)
(* single- and multi-cohort log-likelihoods, optimize, fit) and the two    *)
(* concrete models SBGModel and BDWModel.                                  *)
(*                                                                         *)
(* Numbers are exact rationals <<n, d>> in lowest terms with d > 0, so the *)
(* arithmetic of the source is modelled without floating-point rounding.   *)
(* np.log is kept symbolic: a likelihood is a sequence of terms            *)
(* <<coefficient, argument>>, each standing for coefficient * log(argument)*)
(***************************************************************************)
EXTENDS Integers, Sequences, FiniteSets, TLC

VARIABLES
    model,            \* class of the object fit is called on: "SBG" or "BDW"
    initial_params,   \* self.initial_params: None or a list of numbers
    arg_data,         \* the data argument of fit
    periods,          \* the periods argument of fit
    pc,               \* position of the fit call
    data,             \* fit's local `data` after preprocess_data
    is_multi_cohort,  \* fit's local `is_multi_cohort`
    func,             \* optimize's objective: which likelihood the closure wraps
    survivors,        \* optimize's local `survivors` (single-cohort only)
    x0,               \* the initial guess passed to minimize
    res,              \* the OptimizeResult: [x, status, fun]
    result_dict,      \* fit's return value
    error,            \* the exception fit raised, or None
    minimizer_calls,  \* number of calls of scipy.optimize.minimize in this fit
    trace,            \* the steps fit has executed, in order
    call              \* the last call of a pure method: [op, ..., ret]

vars == <<model, initial_params, arg_data, periods, pc, data, is_multi_cohort,
          func, survivors, x0, res, result_dict, error, minimizer_calls, trace, call>>

fitVars == <<model, initial_params, arg_data, periods, pc, data, is_multi_cohort,
             func, survivors, x0, res, result_dict, error, minimizer_calls, trace>>

None == "None"

\* an optional Python list: None, or the list v
NoList == [some |-> FALSE, v |-> <<>>]
List(v) == [some |-> TRUE, v |-> v]

-----------------------------------------------------------------------------
(* Exact rational arithmetic *)

Abs(i) == IF i < 0 THEN -i ELSE i

RECURSIVE GCD(_, _)
GCD(a, b) == IF b = 0 THEN a ELSE GCD(b, a % b)

\* numpy float division by zero gives inf or nan and a warning, not an
\* exception: every non-finite value is the one value NonFinite, which
\* every operation propagates.
NonFinite == <<0, 0>>

Rat(n, d) ==
    IF d = 0 THEN NonFinite
    ELSE LET g == GCD(Abs(n), Abs(d))
             s == IF d < 0 THEN -1 ELSE 1
         IN  <<(s * n) \div g, (s * d) \div g>>

Int2Rat(i) == <<i, 1>>
Zero == Int2Rat(0)
One == Int2Rat(1)

RAdd(a, b) == Rat(a[1] * b[2] + b[1] * a[2], a[2] * b[2])
RSub(a, b) == Rat(a[1] * b[2] - b[1] * a[2], a[2] * b[2])
RMul(a, b) == Rat(a[1] * b[1], a[2] * b[2])
RDiv(a, b) == Rat(a[1] * b[2], a[2] * b[1])
RLe(a, b) == a[1] * b[2] <= b[1] * a[2]
RLt(a, b) == a[1] * b[2] < b[1] * a[2]

RECURSIVE IntPow(_, _)
IntPow(b, e) == IF e <= 0 THEN 1 ELSE b * IntPow(b, e - 1)

Last(s) == s[Len(s)]

\* all sequences over S of length lo..hi
SeqsOf(S, lo, hi) == UNION {[1..n -> S] : n \in lo..hi}

-----------------------------------------------------------------------------
(* The concrete models: SBGModel and BDWModel *)

Models == {"SBG", "BDW"}

param_names(m) ==
    IF m = "SBG" THEN <<"alpha", "beta">> ELSE <<"alpha", "beta", "c">>

\* self.bounds: one <<lower, upper>> pair per parameter
bounds(m) ==
    IF m = "SBG"
    THEN << <<Rat(1, 10000), Int2Rat(10000)>>, <<Rat(1, 10000), Int2Rat(10000)>> >>
    ELSE << <<Rat(1, 10000), Int2Rat(10000)>>, <<Rat(1, 10000), Int2Rat(10000)>>,
            <<Rat(1, 10000), Int2Rat(3)>> >>

\* SBG_append with the numerator beta + t in place of beta + t - 1
RECURSIVE SBG_append_shifted(_, _, _, _)
SBG_append_shifted(p, t, periods_, params) ==
    IF t >= periods_ THEN p
    ELSE LET alpha == params[1]
             beta == params[2]
             factor == RDiv(RAdd(beta, Int2Rat(t)),
                            RAdd(RAdd(alpha, beta), Int2Rat(t)))
         IN  SBG_append_shifted(Append(p, RMul(factor, p[t])), t + 1, periods_, params)

\* SBGModel.generate_probabilities: p is the list built so far, t the loop index
RECURSIVE SBG_append(_, _, _, _)
SBG_append(p, t, periods_, params) ==
    IF t >= periods_ THEN p
    ELSE LET alpha == params[1]
             beta == params[2]
             factor == RDiv(RAdd(beta, Int2Rat(t - 1)),
                            RAdd(RAdd(alpha, beta), Int2Rat(t)))
         IN  SBG_append(Append(p, RMul(factor, p[t])), t + 1, periods_, params)

SBG_generate_probabilities(periods_, params) ==
    LET alpha == params[1]
        beta == params[2]
    IN  SBG_append(<<RDiv(alpha, RAdd(alpha, beta))>>, 1, periods_, params)

\* SBGModel.survivor: s after the loop has consumed probabilities[1..i-1]
RECURSIVE SBG_subtract(_, _, _, _)
SBG_subtract(s, i, t, probabilities) ==
    IF i > t THEN s
    ELSE SBG_subtract(RSub(s, probabilities[i + 1]), i + 1, t, probabilities)

\* SBG_survivor with the loop ending one index early: range(1, t)
SBG_survivor_short(t, params) ==
    LET probabilities == SBG_generate_probabilities(t + 1, params)
    IN  SBG_subtract(RSub(One, probabilities[1]), 1, t - 1, probabilities)

SBG_survivor(t, params) ==
    LET probabilities == SBG_generate_probabilities(t + 1, params)
    IN  SBG_subtract(RSub(One, probabilities[1]), 1, t, probabilities)

\* BDWModel.survivor.  For a whole number alpha and a whole number c,
\* exp(gammaln(a+b) + gammaln(b+n) - gammaln(b) - gammaln(a+b+n)), n = (t+1)^c,
\* is Gamma(a+b)/Gamma(b) * Gamma(b+n)/Gamma(a+b+n)
\*  = PRODUCT over k in 0..a-1 of (b+k)/(b+n+k).
RECURSIVE BDW_product(_, _, _, _)
BDW_product(k, a, b, n) ==
    IF k >= a THEN One
    ELSE RMul(RDiv(RAdd(b, Int2Rat(k)), RAdd(RAdd(b, n), Int2Rat(k))),
              BDW_product(k + 1, a, b, n))

BDW_survivor(t, params) ==
    LET alpha == params[1]
        beta == params[2]
        c == params[3]
    IN  BDW_product(0, alpha[1], beta, Int2Rat(IntPow(t + 1, c[1])))

survivor(m, t, params) ==
    IF m = "SBG" THEN SBG_survivor(t, params) ELSE BDW_survivor(t, params)

\* LTVModel.predicted_survival: [survivor(i, params) for i in range(periods)]
predicted_survival(m, periods_, params) ==
    IF periods_ <= 0 THEN <<>>
    ELSE [k \in 1..periods_ |-> survivor(m, k - 1, params)]

\* LTVModel.survival_rates; data[0] of an empty list raises IndexError
survival_rates(d) ==
    IF Len(d) = 0 THEN "IndexError"
    ELSE <<RSub(One, d[1])>> \o [k \in 1..(Len(d) - 1) |-> RSub(d[k], d[k + 1])]

BDW_generate_probabilities(periods_, params) ==
    survival_rates(predicted_survival("BDW", periods_, params))

generate_probabilities(m, periods_, params) ==
    IF m = "SBG" THEN SBG_generate_probabilities(periods_, params)
    ELSE BDW_generate_probabilities(periods_, params)

-----------------------------------------------------------------------------
(* LTVModel.preprocess_data *)

\* A data argument is a Python list with its element type: "flat" when its
\* elements are numbers, "nested" when they are lists (hasattr(data[0],
\* '__iter__')).  The empty list has no elements and is written Flat(<<>>).
Flat(v) == [kind |-> "flat", v |-> v]
Nested(v) == [kind |-> "nested", v |-> v]

Returned(val) == [exc |-> None, val |-> val]
Raised(exc) == [exc |-> exc, val |-> None]

\* preprocess_flat that divides raw counts but keeps the leading 1.0
preprocess_flat_keeps_first(v) ==
    IF Len(v) = 0 THEN Raised("IndexError")
    ELSE IF RLt(One, v[1])
         THEN Returned(Flat([k \in 1..Len(v) |-> RDiv(v[k], v[1])]))
         ELSE IF v[1] = One
              THEN Returned(Flat(SubSeq(v, 2, Len(v))))
              ELSE Returned(Flat(v))

\* lines 94-100: the 1D part
preprocess_flat(v) ==
    IF Len(v) = 0 THEN Raised("IndexError")
    ELSE IF RLt(One, v[1])
         THEN Returned(Flat([k \in 1..(Len(v) - 1) |-> RDiv(v[k + 1], v[1])]))
         ELSE IF v[1] = One
              THEN Returned(Flat(SubSeq(v, 2, Len(v))))
              ELSE Returned(Flat(v))

\* preprocess_data that returns every nested input as it is
preprocess_data_no_flatten(d) ==
    IF Len(d.v) = 0 THEN Raised("IndexError")
    ELSE IF d.kind = "nested" THEN Returned(d) ELSE preprocess_flat(d.v)

preprocess_data(d) ==
    IF Len(d.v) = 0 THEN Raised("IndexError")
    ELSE IF d.kind = "nested"
         THEN IF Len(d.v) = 1 THEN preprocess_flat(d.v[1]) ELSE Returned(d)
         ELSE preprocess_flat(d.v)

-----------------------------------------------------------------------------
(* The likelihoods *)

Sentinel == -1000

\* the guard with < in place of <=
any_negative(params) == \E i \in 1..Len(params) : RLt(params[i], Zero)

\* (np.array(params) <= 0).any()
any_nonpositive(params) == \E i \in 1..Len(params) : RLe(params[i], Zero)

\* coef * np.log(arg), where arg was read as from[at] or computed as from(at)
LogTerm(coef, arg, from, at) ==
    [coef |-> coef, log_of |-> arg, from |-> from, at |-> at]

\* What a likelihood call did: the branch it took, the value it returned
\* (Sentinel, or the terms of the sum), the methods it evaluated on the
\* way, and the exception that ended it (None when it returned).
Outcome(branch, value, evaluated, exc) ==
    [branch |-> branch, value |-> value, evaluated |-> evaluated, exc |-> exc]

\* LTVModel.log_likelihood; survivors_ is NoList or the precomputed list
log_likelihood(m, params, d, survivors_) ==
    IF any_nonpositive(params)
    THEN Outcome("sentinel", Sentinel, {}, None)
    ELSE LET s == IF survivors_.some THEN survivors_.v ELSE survival_rates(d)
             probabilities == generate_probabilities(m, Len(d), params)
             final_survivor_likelihood == survivor(m, Len(d) - 1, params)
             terms == [t \in 1..Len(s) |->
                          LogTerm(s[t], probabilities[t], "probabilities", t - 1)]
                      \o <<LogTerm(Last(d), final_survivor_likelihood,
                                   "survivor", Len(d) - 1)>>
         IN  Outcome("sum", terms,
                     {"generate_probabilities", "survivor"}
                         \cup (IF survivors_.some THEN {} ELSE {"survival_rates"}),
                     None)

\* lines 56-62: the terms cohort number i (from 0) adds to total
cohort_terms(m, params, probabilities, cohorts, i, cohort) ==
    [j \in 1..(Len(cohort) - 1) |->
        LogTerm(RSub(cohort[j], cohort[j + 1]), probabilities[j],
                "probabilities", j - 1)]
    \o <<LogTerm(Last(cohort), survivor(m, cohorts - i - 1, params),
                 "survivor", cohorts - i - 1)>>

RECURSIVE multi_total(_, _, _, _, _)
multi_total(m, params, probabilities, d, i) ==
    IF i >= Len(d) THEN <<>>
    ELSE cohort_terms(m, params, probabilities, Len(d), i, d[i + 1])
         \o multi_total(m, params, probabilities, d, i + 1)

\* The list reads that raise IndexError in log_likelihood_multi_cohort:
\* survival_rates of an empty list (BDW's generate_probabilities for 0
\* periods), probabilities[j] past its end, cohort[-1] of an empty cohort.
multi_index_error(m, d) ==
    LET n == IF m = "SBG" /\ Len(d[1]) = 0 THEN 1 ELSE Len(d[1])
    IN  \/ m = "BDW" /\ Len(d[1]) = 0
        \/ \E i \in 1..Len(d) : Len(d[i]) = 0 \/ Len(d[i]) - 1 > n

\* LTVModel.log_likelihood_multi_cohort; d is a list of at least one cohort
log_likelihood_multi_cohort(m, params, d) ==
    IF any_nonpositive(params)
    THEN Outcome("sentinel", Sentinel, {}, None)
    ELSE IF multi_index_error(m, d)
         THEN Outcome("sum", None,
                      {"generate_probabilities"}
                          \cup (IF Len(d[1]) > 0 THEN {"survivor"} ELSE {}),
                      "IndexError")
         ELSE LET probabilities == generate_probabilities(m, Len(d[1]), params)
              IN  Outcome("sum", multi_total(m, params, probabilities, d, 0),
                          {"generate_probabilities", "survivor"}, None)

-----------------------------------------------------------------------------
(* LTVModel.optimize and LTVModel.fit *)

\* np.isclose(a, b) with numpy's defaults rtol = 1e-05, atol = 1e-08:
\* |a - b| <= atol + rtol * |b|.  With a = n/d and b = bn/bd, both sides
\* times d * bd / atol:
\*   |n*bd - bn*d| / atol <= d*bd + (rtol / atol) * |bn| * d
AtolInv == 100000000
RtolInv == 100000

isclose(a, b) ==
    Abs(a[1] * b[2] - b[1] * a[2])
        <= (a[2] * b[2] + (AtolInv \div RtolInv) * Abs(b[1]) * a[2]) \div AtolInv

\* line 80: np.isclose(res.x, bounds[:, 0]).any() or np.isclose(res.x, bounds[:, 1]).any()
close_to_bound(m, x) ==
    \/ \E i \in 1..Len(x) : isclose(x[i], bounds(m)[i][1])
    \/ \E i \in 1..Len(x) : isclose(x[i], bounds(m)[i][2])

\* the status test with > 1 in place of != 0
status_above_one(r) == r.status > 1

\* line 127: res.status != 0
status_failed(r) == r.status # 0

\* a failed validation that goes back to the minimizer instead of raising
retry_after_failed_validation == "optimize"

\* where fit goes when validation fails: lines 82 and 128 raise
after_failed_validation == "raised"

\* lines 130-134: the parameters zipped with res.x, then the curve and the loss
assemble(m, periods_, r) ==
    [key \in {param_names(m)[i] : i \in 1..Len(param_names(m))}
             \cup {"retention_curve", "loss"} |->
        IF key = "retention_curve"
        THEN <<1>> \o predicted_survival(m, periods_, r.x)
        ELSE IF key = "loss" THEN r.fun
        ELSE r.x[CHOOSE i \in 1..Len(param_names(m)) : param_names(m)[i] = key]]

-----------------------------------------------------------------------------
(* The inputs of the model *)

MaxFitLen == 2       \* longest flat list given to fit
MaxCohortLen == 2    \* longest cohort of a cohort set given to fit
MaxPeriods == 2      \* largest periods argument

FlatValues == {Rat(1, 2), One, Int2Rat(2)}

Flats(maxlen) == SeqsOf(FlatValues, 0, maxlen)

\* a cohort of raw counts observed for L periods: L+1, L, ..., 2
Cohort(L) == [k \in 1..L |-> Int2Rat(L - k + 2)]

\* the cohort sets given to fit: two cohorts, in any order of length
CohortPairs == {<<Cohort(a), Cohort(b)>> : a, b \in 0..MaxCohortLen}

FlatFitData == {Flat(v) : v \in Flats(MaxFitLen)}

NestedFitData ==
    {Nested(<<v>>) : v \in Flats(MaxFitLen)} \cup {Nested(cs) : cs \in CohortPairs}

PeriodsArgs == (-1)..MaxPeriods

\* initial_params given to the constructor: None, or a list of ones
InitialParams == {NoList} \cup {List([i \in 1..n |-> One]) : n \in {2, 3}}

\* np.random.rand(n): n draws from [0, 1)
RandDraws == {Rat(1, 4), Rat(3, 4)}

\* What minimize can return.  Each fitted parameter is either within
\* np.isclose of one of its bounds (1/9999 of the lower bound 0.0001;
\* 99999/10 of the upper bound 10000; 119999/40000 of c's upper bound 3) or
\* well inside them; BDW's alpha and c are whole numbers when inside.
CandidateVectors(m) ==
    IF m = "SBG"
    THEN {<<a, b>> : a \in {Rat(1, 9999), One, Rat(99999, 10)},
                     b \in {Rat(1, 9999), Int2Rat(2), Rat(99999, 10)}}
    ELSE {<<a, b, c>> : a \in {Int2Rat(3), Rat(99999, 10)},
                        b \in {Rat(1, 9999), Rat(1, 2)},
                        c \in {Int2Rat(2), Rat(119999, 40000)}}

Statuses == {0, 1}
FunValues == {3, 7}

MinimizerResults(m) ==
    {[x |-> x, status |-> st, fun |-> f] :
        x \in CandidateVectors(m), st \in Statuses, f \in FunValues}

-----------------------------------------------------------------------------
(* fit, step by step *)

NoCall == [op |-> None]

Init ==
    /\ model \in Models
    /\ initial_params \in InitialParams
    /\ arg_data = None
    /\ periods = None
    /\ pc = "idle"
    /\ data = None
    /\ is_multi_cohort = None
    /\ func = None
    /\ survivors = NoList
    /\ x0 = None
    /\ res = None
    /\ result_dict = None
    /\ error = None
    /\ minimizer_calls = 0
    /\ trace = <<>>
    /\ call = NoCall

\* a caller calls fit(d, p) on the constructed object
Fit(d, p) ==
    /\ pc = "idle"
    /\ arg_data' = d
    /\ periods' = p
    /\ pc' = "preprocess"
    /\ data' = None
    /\ is_multi_cohort' = None
    /\ func' = None
    /\ survivors' = NoList
    /\ x0' = None
    /\ res' = None
    /\ result_dict' = None
    /\ error' = None
    /\ minimizer_calls' = 0
    /\ trace' = <<>>
    /\ UNCHANGED <<model, initial_params, call>>

\* line 122
Preprocess ==
    /\ pc = "preprocess"
    /\ LET r == preprocess_data(arg_data)
       IN  IF r.exc # None
           THEN /\ pc' = "raised"
                /\ error' = r.exc
                /\ data' = data
           ELSE /\ pc' = "detect"
                /\ error' = error
                /\ data' = r.val
    /\ trace' = Append(trace, "preprocess")
    /\ UNCHANGED <<model, initial_params, arg_data, periods, is_multi_cohort, func,
                   survivors, x0, res, result_dict, minimizer_calls, call>>

\* line 124: data[0] is read, then tested for __iter__
Detect ==
    /\ pc = "detect"
    /\ IF Len(data.v) = 0
       THEN /\ pc' = "raised"
            /\ error' = "IndexError"
            /\ is_multi_cohort' = is_multi_cohort
       ELSE /\ pc' = "optimize"
            /\ error' = error
            /\ is_multi_cohort' = (data.kind = "nested")
    /\ trace' = Append(trace, "detect")
    /\ UNCHANGED <<model, initial_params, arg_data, periods, data, func,
                   survivors, x0, res, result_dict, minimizer_calls, call>>

\* `self.initial_params or ...`: None and the empty list are falsy
truthy(l) == l.some /\ Len(l.v) > 0

\* lines 67-78 up to the call: the objective is built and minimize is called
CallMinimize(draw) ==
    /\ pc = "optimize"
    /\ IF is_multi_cohort
       THEN /\ func' = "log_likelihood_multi_cohort"
            /\ survivors' = survivors
       ELSE /\ func' = "log_likelihood"
            /\ survivors' = List(survival_rates(data.v))
    /\ x0' = IF truthy(initial_params) THEN initial_params.v ELSE draw
    /\ minimizer_calls' = minimizer_calls + 1
    /\ trace' = Append(trace, "minimize")
    /\ pc' = "minimizing"
    /\ UNCHANGED <<model, initial_params, arg_data, periods, data, is_multi_cohort,
                   res, result_dict, error, call>>

\* minimize returns an OptimizeResult
MinimizerReturns(r) ==
    /\ pc = "minimizing"
    /\ res' = r
    /\ x0' = None
    /\ pc' = "validate_bounds"
    /\ UNCHANGED <<model, initial_params, arg_data, periods, data, is_multi_cohort,
                   func, survivors, result_dict, error, minimizer_calls, trace, call>>

\* minimize raises: an unknown method, an x0 that does not fit the bounds,
\* or an exception of the objective (an IndexError of the likelihood)
MinimizerRaises ==
    /\ pc = "minimizing"
    /\ x0' = None
    /\ pc' = "raised"
    /\ error' = "MinimizeError"
    /\ UNCHANGED <<model, initial_params, arg_data, periods, data, is_multi_cohort,
                   func, survivors, res, result_dict, minimizer_calls, trace, call>>

\* lines 80-84
ValidateBounds ==
    /\ pc = "validate_bounds"
    /\ IF close_to_bound(model, res.x)
       THEN /\ pc' = after_failed_validation
            /\ error' = "Optimization Failed: Found parameters are inappropriate."
       ELSE /\ pc' = "validate_status"
            /\ error' = error
    /\ trace' = Append(trace, "validate_bounds")
    /\ UNCHANGED <<model, initial_params, arg_data, periods, data, is_multi_cohort,
                   func, survivors, x0, res, result_dict, minimizer_calls, call>>

\* lines 127-128
CheckStatus ==
    /\ pc = "validate_status"
    /\ IF status_failed(res)
       THEN /\ pc' = after_failed_validation
            /\ error' = "Optimization Failed:"
       ELSE /\ pc' = "assemble"
            /\ error' = error
    /\ trace' = Append(trace, "validate_status")
    /\ UNCHANGED <<model, initial_params, arg_data, periods, data, is_multi_cohort,
                   func, survivors, x0, res, result_dict, minimizer_calls, call>>

\* lines 130-136
Assemble ==
    /\ pc = "assemble"
    /\ result_dict' = assemble(model, periods, res)
    /\ pc' = "returned"
    /\ trace' = Append(trace, "assemble")
    /\ UNCHANGED <<model, initial_params, arg_data, periods, data, is_multi_cohort,
                   func, survivors, x0, res, error, minimizer_calls, call>>

RandomVectors(m) == [1..Len(param_names(m)) -> RandDraws]

Next ==
    \/ \E d \in FlatFitData, p \in PeriodsArgs : Fit(d, p)
    \/ \E d \in NestedFitData, p \in PeriodsArgs : Fit(d, p)
    \/ Preprocess
    \/ Detect
    \/ \E draw \in RandomVectors(model) : CallMinimize(draw)
    \/ \E r \in MinimizerResults(model) : MinimizerReturns(r)
    \/ MinimizerRaises
    \/ ValidateBounds
    \/ CheckStatus
    \/ Assemble

Spec == Init /\ [][Next]_vars

-----------------------------------------------------------------------------
(* The methods called on their own, on a constructed model *)

MaxLen == 3          \* longest flat list
MaxN == 4            \* largest periods argument of the probability methods
MaxMultiLen == 4     \* longest cohort given to log_likelihood_multi_cohort
MaxCohorts == 3      \* most cohorts in a cohort set

PositiveValues == {Rat(1, 2), One, Int2Rat(2), Int2Rat(3)}

\* parameter vectors inside the bounds (BDW: whole alpha and c)
ValidParams(m) ==
    IF m = "SBG"
    THEN {<<a, b>> : a \in PositiveValues, b \in PositiveValues}
    ELSE {<<a, b, c>> : a \in {One, Int2Rat(2), Int2Rat(3)}, b \in PositiveValues,
                        c \in {One, Int2Rat(2)}}

\* the points at which a minimizer may evaluate the objective
ProbeParams(m) ==
    IF m = "SBG"
    THEN {<<a, b>> : a \in {Int2Rat(-1), Zero, One},
                     b \in {Zero, Rat(1, 2), Int2Rat(2)}}
    ELSE {<<a, b, c>> : a \in {Zero, Int2Rat(2)}, b \in {Int2Rat(-1), Rat(1, 2)},
                        c \in {Zero, One, Int2Rat(2)}}

NestedData ==
    {Nested(<<v>>) : v \in Flats(MaxLen)}
        \cup {Nested(cs) : cs \in SeqsOf(Flats(1), 2, MaxCohorts)}

\* cohort sets in any order of length, and the pairs with an empty cohort
CohortSets ==
    SeqsOf({Cohort(L) : L \in 1..MaxMultiLen}, 2, MaxCohorts)
        \cup {<<Cohort(a), Cohort(b)>> : a, b \in 0..1}

InitPure ==
    /\ Init
    /\ initial_params = NoList

CallPreprocessData(d) ==
    /\ call = NoCall
    /\ call' = [op |-> "preprocess_data", data |-> d, ret |-> preprocess_data(d)]
    /\ UNCHANGED fitVars

CallSurvivalRates(d) ==
    /\ call = NoCall
    /\ call' = [op |-> "survival_rates", data |-> d, ret |-> survival_rates(d)]
    /\ UNCHANGED fitVars

CallPredictedSurvival(n, params) ==
    /\ call = NoCall
    /\ call' = [op |-> "predicted_survival", periods |-> n, params |-> params,
                ret |-> predicted_survival(model, n, params)]
    /\ UNCHANGED fitVars

CallGenerateProbabilities(n, params) ==
    /\ call = NoCall
    /\ call' = [op |-> "generate_probabilities", periods |-> n, params |-> params,
                ret |-> generate_probabilities(model, n, params)]
    /\ UNCHANGED fitVars

CallSurvivor(t, params) ==
    /\ call = NoCall
    /\ call' = [op |-> "survivor", t |-> t, params |-> params,
                ret |-> survivor(model, t, params)]
    /\ UNCHANGED fitVars

\* as optimize's closure calls it (survivors precomputed) or with the default
CallLogLikelihood(params, d, precomputed) ==
    /\ call = NoCall
    /\ call' = [op |-> "log_likelihood", params |-> params, data |-> d,
                ret |-> log_likelihood(model, params, d,
                            IF precomputed THEN List(survival_rates(d)) ELSE NoList)]
    /\ UNCHANGED fitVars

CallLogLikelihoodMultiCohort(params, d) ==
    /\ call = NoCall
    /\ call' = [op |-> "log_likelihood_multi_cohort", params |-> params, data |-> d,
                ret |-> log_likelihood_multi_cohort(model, params, d)]
    /\ UNCHANGED fitVars

NextPure ==
    \/ \E v \in Flats(MaxLen) : CallPreprocessData(Flat(v))
    \/ \E d \in NestedData : CallPreprocessData(d)
    \/ \E d \in Flats(MaxLen) \ {<<>>} : CallSurvivalRates(d)
    \/ \E n \in 0..MaxN, params \in ValidParams(model) : CallPredictedSurvival(n, params)
    \/ \E n \in 0..MaxN, params \in ValidParams(model) : CallGenerateProbabilities(n, params)
    \/ \E t \in 0..(MaxN - 1), params \in ValidParams(model) : CallSurvivor(t, params)
    \/ \E params \in ProbeParams(model), d \in Flats(MaxLen) \ {<<>>}, pre \in BOOLEAN :
           CallLogLikelihood(params, d, pre)
    \/ \E params \in ProbeParams(model), d \in CohortSets :
           CallLogLikelihoodMultiCohort(params, d)

SpecPure == InitPure /\ [][NextPure]_vars

-----------------------------------------------------------------------------
(* Properties *)

\* the sum of the first n elements of a list of numbers
RECURSIVE PrefixSum(_, _)
PrefixSum(l, n) == IF n = 0 THEN Zero ELSE RAdd(PrefixSum(l, n - 1), l[n])

IsPrefix(a, b) == Len(a) <= Len(b) /\ a = SubSeq(b, 1, Len(a))

StepOrder ==
    <<"preprocess", "detect", "minimize", "validate_bounds", "validate_status",
      "assemble">>

Count(l, e) == Cardinality({i \in 1..Len(l) : l[i] = e})

\* minimize has returned to optimize in this call of fit
MinimizerReturned == Len(trace) >= 3 /\ pc # "minimizing" /\ error # "MinimizeError"

\* some fitted parameter is within np.isclose of one of its own bounds
SomeParameterAtBound ==
    \E i \in 1..Len(res.x) :
        isclose(res.x[i], bounds(model)[i][1]) \/ isclose(res.x[i], bounds(model)[i][2])

\* C1: fit returns a result only when the minimizer's status is 0 and no
\* fitted parameter is close to its lower or its upper bound; when the status
\* is not 0 or a parameter is close to a bound, fit ends by raising and has
\* assembled no result.
C1_AllOrNothing ==
    /\ pc = "returned" =>
          /\ MinimizerReturned
          /\ res.status = 0
          /\ ~SomeParameterAtBound
    /\ (MinimizerReturned /\ Len(trace) >= 4 /\ SomeParameterAtBound) =>
          /\ pc = "raised"
          /\ Count(trace, "assemble") = 0
    /\ (MinimizerReturned /\ Len(trace) >= 5 /\ res.status # 0) =>
          /\ pc = "raised"
          /\ Count(trace, "assemble") = 0
    /\ pc = "raised" => Count(trace, "assemble") = 0

\* C1 witness: a minimizer result with status 0 and a parameter close to a
\* bound has been rejected.
C1_Witness ==
    /\ pc = "raised"
    /\ MinimizerReturned
    /\ res.status = 0
    /\ SomeParameterAtBound
    /\ error = "Optimization Failed: Found parameters are inappropriate."

\* C9: the steps of fit occur in the order preprocess, detection, one
\* minimizer call, validation, assembly; the minimizer is called at most once
\* per call of fit, also after a validation failure.
C9_NoRetry ==
    /\ IsPrefix(trace, StepOrder)
    /\ minimizer_calls <= 1
    /\ minimizer_calls = Count(trace, "minimize")
    /\ (pc = "raised" /\ Len(trace) >= 4) => minimizer_calls = 1

\* C9 witness: a validation failure has been raised after exactly one
\* minimizer call.
C9_Witness ==
    /\ pc = "raised"
    /\ trace = SubSeq(StepOrder, 1, 4)
    /\ minimizer_calls = 1

\* preprocess_data has returned in this call of fit
Preprocessed == pc = "detect" \/ Len(trace) >= 2

SingleNested(d) == d.kind = "nested" /\ Len(d.v) = 1
MultiNested(d) == d.kind = "nested" /\ Len(d.v) >= 2

\* C3: a nested input with one inner sequence is preprocessed to the flat
\* series of that inner sequence and fitted with the single-cohort
\* likelihood; a nested input with two or more inner sequences is left as it
\* is and fitted with the multi-cohort likelihood; a flat input never gets
\* the multi-cohort likelihood.
C3_CohortMode ==
    /\ (Preprocessed /\ SingleNested(arg_data)) =>
          /\ data.kind = "flat"
          /\ Returned(data) = preprocess_data(Flat(arg_data.v[1]))
    /\ (Preprocessed /\ MultiNested(arg_data)) =>
          /\ data.kind = "nested"
          /\ data.v = arg_data.v
    /\ minimizer_calls >= 1 =>
          /\ is_multi_cohort = MultiNested(arg_data)
          /\ func = IF MultiNested(arg_data)
                    THEN "log_likelihood_multi_cohort" ELSE "log_likelihood"

\* C3 witness: fit of a nested input with one inner sequence has reached the
\* minimizer with the single-cohort likelihood.
C3_Witness ==
    /\ pc = "minimizing"
    /\ SingleNested(arg_data)
    /\ Len(arg_data.v[1]) = 2
    /\ func = "log_likelihood"

ParamCount == Len(param_names(model))

\* the curve of the returned result
Curve == result_dict["retention_curve"]

\* the entries of a returned result other than the length of its curve
ResultEntries ==
    /\ DOMAIN result_dict
          = {param_names(model)[i] : i \in 1..ParamCount} \cup {"retention_curve", "loss"}
    /\ \A i \in 1..ParamCount : result_dict[param_names(model)[i]] = res.x[i]
    /\ result_dict["loss"] = res.fun
    /\ Curve[1] = 1
    /\ \A k \in 1..periods : k + 1 <= Len(Curve) /\ Curve[k + 1] = survivor(model, k - 1, res.x)

\* C4: whenever fit returns, the result holds the fitted value of every
\* parameter name, the minimizer's final objective value as 'loss', and a
\* 'retention_curve' of length periods + 1 that starts with 1 and whose
\* element k is survivor(k - 1, fitted parameters).
C4_ResultShape ==
    pc = "returned" => (ResultEntries /\ Len(Curve) = periods + 1)

\* What holds of every returned result: the entries of C4, with a curve of
\* length periods + 1 when periods >= 0 and of length 1 when periods < 0.
C4_ResultShapeAsCoded ==
    pc = "returned" =>
        /\ ResultEntries
        /\ Len(Curve) = IF periods >= 0 THEN periods + 1 ELSE 1

MalformedInput ==
    \/ Len(arg_data.v) = 0
    \/ periods <= 0
    \/ initial_params.some /\ Len(initial_params.v) # ParamCount

\* C6: when fit is called with empty data, with periods <= 0, or on a model
\* whose initial parameter vector has another length than the model has
\* parameters, fit raises before the minimizer is called and returns nothing.
C6_MalformedInputFailsFast ==
    (pc # "idle" /\ MalformedInput) => (minimizer_calls = 0 /\ pc # "returned")

\* What holds of malformed input: only empty data fails before the minimizer.
C6_EmptyDataFailsFast ==
    (pc # "idle" /\ Len(arg_data.v) = 0) =>
        (minimizer_calls = 0 /\ pc \in {"preprocess", "raised"})

\* C2: preprocess_data of a flat, non-empty list d returns d[1..] divided by
\* d[0] when d[0] > 1 (length n - 1), d without its first element when
\* d[0] = 1, and d unchanged otherwise.
C2_PreprocessFlat ==
    (call.op = "preprocess_data" /\ call.data.kind = "flat" /\ Len(call.data.v) > 0) =>
        LET d == call.data.v
            n == Len(d)
        IN  /\ call.ret.exc = None
            /\ call.ret.val.kind = "flat"
            /\ LET out == call.ret.val.v
               IN  /\ RLt(One, d[1]) =>
                          /\ Len(out) = n - 1
                          /\ \A k \in 1..(n - 1) : RMul(out[k], d[1]) = d[k + 1]
                   /\ d[1] = One =>
                          /\ Len(out) = n - 1
                          /\ \A k \in 1..(n - 1) : out[k] = d[k + 1]
                   /\ RLt(d[1], One) => out = d

\* C2 witness: raw counts [2, 1, 1/2] have been normalized to [1/2, 1/4].
C2_Witness ==
    /\ call.op = "preprocess_data"
    /\ call.data = Flat(<<Int2Rat(2), One, Rat(1, 2)>>)
    /\ call.ret = Returned(Flat(<<Rat(1, 2), Rat(1, 4)>>))

LikelihoodCall == call.op \in {"log_likelihood", "log_likelihood_multi_cohort"}

\* C5: for a parameter vector with a component <= 0 both likelihoods return
\* -1000 without raising and without evaluating survival_rates,
\* generate_probabilities or survivor, whatever the data; for a vector with
\* all components > 0 they do not take that branch.
C5_InfeasibleGuard ==
    LikelihoodCall =>
        /\ (\E i \in 1..Len(call.params) : call.params[i][1] <= 0) =>
              /\ call.ret.branch = "sentinel"
              /\ call.ret.exc = None
              /\ call.ret.value = -1000
              /\ call.ret.evaluated = {}
        /\ (\A i \in 1..Len(call.params) : call.params[i][1] > 0) =>
              /\ call.ret.branch = "sum"
              /\ "generate_probabilities" \in call.ret.evaluated

\* C5 witness: the multi-cohort likelihood has returned the sentinel for a
\* vector whose only non-positive component is a zero.
C5_Witness ==
    /\ call.op = "log_likelihood_multi_cohort"
    /\ \E i \in 1..Len(call.params) : call.params[i][1] = 0
    /\ \A i \in 1..Len(call.params) : call.params[i][1] >= 0
    /\ call.ret.branch = "sentinel"

\* C7: survival_rates(predicted_survival(n, params)) equals
\* generate_probabilities(n, params) element by element for n >= 1, for SBG
\* and BDW; survival_rates is first differencing, so 1 minus the running sum
\* of its output is its input.
C7_RoundTrip ==
    /\ (call.op = "predicted_survival" /\ call.periods >= 1) =>
          LET rates == survival_rates(call.ret)
              probabilities == generate_probabilities(model, call.periods, call.params)
          IN  /\ Len(rates) = Len(probabilities)
              /\ \A k \in 1..Len(rates) : rates[k] = probabilities[k]
    /\ call.op = "survival_rates" =>
          /\ Len(call.ret) = Len(call.data)
          /\ call.ret[1] = RSub(One, call.data[1])
          /\ \A k \in 2..Len(call.data) :
                call.ret[k] = RSub(call.data[k - 1], call.data[k])
          /\ \A k \in 1..Len(call.data) :
                RSub(One, PrefixSum(call.ret, k)) = call.data[k]

\* C7 witness: the SBG survival curve over three periods or more has been
\* computed, with distinct alpha and beta.
C7_Witness ==
    /\ call.op = "predicted_survival"
    /\ model = "SBG"
    /\ call.periods >= 3
    /\ Len(call.ret) = call.periods
    /\ call.params[1] # call.params[2]

\* C8: for alpha, beta > 0 and periods >= 1, SBG generate_probabilities has
\* length periods, starts with alpha/(alpha+beta), follows
\* p[t] = (beta+t-1)/(alpha+beta+t) * p[t-1], is non-negative and has every
\* prefix sum <= 1; SBG survivor(t) is 1 minus the prefix sum up to t, lies in
\* [0, 1] and does not increase with t.
C8_SBGProbabilities ==
    /\ (call.op = "generate_probabilities" /\ model = "SBG" /\ call.periods >= 1) =>
          LET p == call.ret
              alpha == call.params[1]
              beta == call.params[2]
          IN  /\ Len(p) = call.periods
              /\ RMul(p[1], RAdd(alpha, beta)) = alpha
              /\ \A t \in 1..(Len(p) - 1) :
                    RMul(p[t + 1], RAdd(RAdd(alpha, beta), Int2Rat(t)))
                        = RMul(RAdd(beta, Int2Rat(t - 1)), p[t])
              /\ \A t \in 1..Len(p) : RLe(Zero, p[t]) /\ RLe(PrefixSum(p, t), One)
    /\ (call.op = "survivor" /\ model = "SBG") =>
          /\ call.ret = RSub(One, PrefixSum(generate_probabilities(model, MaxN + 1, call.params),
                                            call.t + 1))
          /\ RLe(Zero, call.ret) /\ RLe(call.ret, One)
    /\ (call.op = "predicted_survival" /\ model = "SBG") =>
          \A k \in 1..(Len(call.ret) - 1) : RLe(call.ret[k + 1], call.ret[k])

\* C8 witness: SBG probabilities over three periods or more have been
\* generated.
C8_Witness ==
    /\ call.op = "generate_probabilities"
    /\ model = "SBG"
    /\ call.periods >= 3
    /\ Len(call.ret) = call.periods
    /\ call.params = <<Rat(1, 2), Int2Rat(2)>>

\* a cohort set ordered from the longest-observed cohort to the shortest,
\* every cohort with a period after its first
Descending(d) ==
    /\ \A i \in 1..Len(d) : Len(d[i]) >= 2
    /\ \A i \in 1..(Len(d) - 1) : Len(d[i]) > Len(d[i + 1])

IsCensorTerm(term) == term.from = "survivor"
IsChurnTerm(term) == term.from = "probabilities"

FeasibleMultiCohortCall ==
    /\ call.op = "log_likelihood_multi_cohort"
    /\ call.ret.branch = "sum"
    /\ Descending(call.data)

\* the offset at which the single-cohort likelihood evaluates survivor for
\* one cohort of raw counts, after preprocess_data
SingleCohortOffset(cohort) ==
    Last(log_likelihood(model, call.params, preprocess_flat(cohort).val.v, NoList).value).at

\* C10: in log_likelihood_multi_cohort on a cohort set ordered from longest
\* to shortest, the right-censoring term of every cohort evaluates survivor at
\* the offset of that cohort's own last observed period, len(cohort) - 2, the
\* offset the single-cohort likelihood uses for that cohort; and every index
\* into probabilities is within the first cohort's length.
C10_CensoringOffset ==
    FeasibleMultiCohortCall =>
        /\ call.ret.exc = None
        /\ LET censor == SelectSeq(call.ret.value, IsCensorTerm)
               churn == SelectSeq(call.ret.value, IsChurnTerm)
           IN  /\ Len(censor) = Len(call.data)
               /\ \A i \in 1..Len(call.data) :
                     /\ censor[i].at = Len(call.data[i]) - 2
                     /\ censor[i].at = SingleCohortOffset(call.data[i])
               /\ \A j \in 1..Len(churn) :
                     churn[j].at >= 0 /\ churn[j].at < Len(call.data[1])

\* What holds of every descending cohort set: the indices are in range, and
\* cohort i (from 0) is censored at offset cohorts - i - 1, which is its own
\* last period exactly when its length is cohorts - i + 1.
C10_AsCoded ==
    FeasibleMultiCohortCall =>
        /\ call.ret.exc = None
        /\ LET censor == SelectSeq(call.ret.value, IsCensorTerm)
               churn == SelectSeq(call.ret.value, IsChurnTerm)
           IN  /\ Len(censor) = Len(call.data)
               /\ \A i \in 1..Len(call.data) :
                     /\ censor[i].at = Len(call.data) - i
                     /\ (Len(call.data[i]) = Len(call.data) - i + 2) =>
                            censor[i].at = SingleCohortOffset(call.data[i])
               /\ \A j \in 1..Len(churn) :
                     churn[j].at >= 0 /\ churn[j].at < Len(call.data[1])

=============================================================================
